---- MODULE Spec2Model ----
(***************************************************************************)
(* orthotokenizer: the profile-driven grapheme tokenizer (tokenizer.py),   *)
(* its grapheme trie (tree.py) and the row reader (util.py).               *)
(*                                                                         *)
(* A Python string is a sequence of one-character strings.  The character  *)
(* "@" stands for a precomposed letter (U+00E1, a with acute), "'" for the *)
(* combining acute accent (canonical combining class 230) and "." for the  *)
(* combining dot below (class 220); every other character is a starter.    *)
(***************************************************************************)
EXTENDS Integers, Sequences, FiniteSets, TLC

VARIABLES
    profile_file,   \* the lines of <name>.prf, or NoFile
    rules_file,     \* the lines of <name>.rules, or NoFile
    self,           \* the Tokenizer object
    pc,             \* "new": before __init__; "failed": __init__ raised; "ready": constructed,
                    \* no call in progress; "returned": a call has returned to its caller
    ret             \* the last call: its method, its arguments and what it returned or raised

vars == <<profile_file, rules_file, self, pc, ret>>

\* A file on disk: whether it exists, and its lines.
NoFile == [exists |-> FALSE, lines |-> <<>>]
File(lines) == [exists |-> TRUE, lines |-> lines]

None == "None"

(***************************************************************************)
(* Python's str and unicodedata operations, as the code uses them.         *)
(***************************************************************************)
Whitespace == {" ", "\t"}

RECURSIVE lstrip(_, _)
lstrip(s, chars) ==
    IF s # <<>> /\ Head(s) \in chars THEN lstrip(Tail(s), chars) ELSE s

RECURSIVE rstrip(_, _)
rstrip(s, chars) ==
    IF s # <<>> /\ s[Len(s)] \in chars THEN rstrip(SubSeq(s, 1, Len(s) - 1), chars) ELSE s

strip(s) == lstrip(rstrip(s, Whitespace), Whitespace)

startswith(s, prefix) ==
    Len(s) >= Len(prefix) /\ SubSeq(s, 1, Len(prefix)) = prefix

\* str.replace(old, new) for a non-empty old: leftmost non-overlapping occurrences.
RECURSIVE replace(_, _, _)
replace(s, old, new) ==
    IF Len(s) < Len(old) THEN s
    ELSE IF SubSeq(s, 1, Len(old)) = old
         THEN new \o replace(SubSeq(s, Len(old) + 1, Len(s)), old, new)
         ELSE <<Head(s)>> \o replace(Tail(s), old, new)

\* str.split(sep): every occurrence of the separator ends a field, empty fields kept.
RECURSIVE split_sep(_, _)
split_sep(s, sep) ==
    IF \A i \in 1..Len(s) : s[i] # sep THEN <<s>>
    ELSE LET i == CHOOSE k \in 1..Len(s) : s[k] = sep /\ \A j \in 1..(k - 1) : s[j] # sep
         IN  <<SubSeq(s, 1, i - 1)>> \o split_sep(SubSeq(s, i + 1, Len(s)), sep)

\* str.split(): fields between runs of whitespace, no empty fields.
RECURSIVE split(_)
split(s) ==
    LET t == lstrip(s, Whitespace)
    IN  IF t = <<>> THEN <<>>
        ELSE IF \A i \in 1..Len(t) : t[i] \notin Whitespace THEN <<t>>
        ELSE LET i == CHOOSE k \in 1..Len(t) :
                          t[k] \in Whitespace /\ \A j \in 1..(k - 1) : t[j] \notin Whitespace
             IN  <<SubSeq(t, 1, i - 1)>> \o split(SubSeq(t, i + 1, Len(t)))

\* sep.join(xs)
RECURSIVE join(_, _)
join(sep, xs) ==
    IF xs = <<>> THEN <<>>
    ELSE IF Len(xs) = 1 THEN xs[1]
    ELSE xs[1] \o sep \o join(sep, Tail(xs))

\* "".join(xs)
RECURSIVE concat(_)
concat(xs) == IF xs = <<>> THEN <<>> ELSE Head(xs) \o concat(Tail(xs))

lower_char(c) ==
    CASE c = "G" -> "g" [] c = "I" -> "i" [] c = "P" -> "p" [] c = "A" -> "a" [] OTHER -> c

lower(s) == [i \in 1..Len(s) |-> lower_char(s[i])]

\* Canonical decomposition of one character.
decompose_char(c) == IF c = "@" THEN <<"a", "'">> ELSE <<c>>

\* Canonical combining class.
ccc(c) == CASE c = "'" -> 230 [] c = "." -> 220 [] OTHER -> 0

RECURSIVE decompose(_)
decompose(s) == IF s = <<>> THEN <<>> ELSE decompose_char(Head(s)) \o decompose(Tail(s))

\* Canonical ordering: adjacent combining marks are exchanged while the first has the
\* higher class.
RECURSIVE reorder(_)
reorder(s) ==
    IF \E i \in 1..(Len(s) - 1) : ccc(s[i + 1]) > 0 /\ ccc(s[i]) > ccc(s[i + 1])
    THEN LET i == CHOOSE k \in 1..(Len(s) - 1) : ccc(s[k + 1]) > 0 /\ ccc(s[k]) > ccc(s[k + 1])
         IN  reorder([s EXCEPT ![i] = s[i + 1], ![i + 1] = s[i]])
    ELSE s

\* unicodedata.normalize("NFD", s)
NFD(s) == reorder(decompose(s))

(***************************************************************************)
(* util.py                                                                 *)
(***************************************************************************)
strip_all(cols) == [i \in 1..Len(cols) |-> strip(cols[i])]

\* The rows normalized_rows yields with the separator "\t" and skip_comments.
RECURSIVE normalized_rows(_)
normalized_rows(lines) ==
    IF lines = <<>> THEN <<>>
    ELSE LET line == NFD(strip(Head(lines)))
         IN  (IF line # <<>> /\ ~startswith(line, <<"#">>)
              THEN <<strip_all(split_sep(line, "\t"))>>
              ELSE <<>>) \o normalized_rows(Tail(lines))

(***************************************************************************)
(* tree.py.  A TreeNode is named by the path that leads to it from the     *)
(* root: tree.nodes holds the paths of all nodes, tree.sentinel those of   *)
(* the nodes whose sentinel flag is set.  The root is the empty path.      *)
(***************************************************************************)
GRAPHEMES == <<"g", "r", "a", "p", "h", "e", "m", "e", "s">>

root == <<>>

EmptyTree == [nodes |-> {root}, sentinel |-> {root}]

addMultigraph(tree, line) ==
    [nodes    |-> tree.nodes \cup {SubSeq(line, 1, k) : k \in 0..Len(line)},
     sentinel |-> tree.sentinel \cup {line}]

RECURSIVE Tree_rows(_, _, _)
Tree_rows(tree, rows, i) ==
    IF rows = <<>> THEN tree
    ELSE LET tokens == Head(rows)
         IN  IF i = 0 /\ startswith(lower(tokens[1]), GRAPHEMES)
             THEN Tree_rows(tree, Tail(rows), i + 1)
             ELSE Tree_rows(addMultigraph(tree, tokens[1]), Tail(rows), i + 1)

\* Tree.__init__
Tree(lines) == Tree_rows(EmptyTree, normalized_rows(lines), 0)

RECURSIVE _parse(_, _), _parse_while(_, _, _, _, _), _parse_while_overwrite(_, _, _, _, _)
\* The while loop of Tree._parse, had it overwritten the recorded parse with the
\* subparse of every terminal node it passes, failed or not.
_parse_while_overwrite(tree, line, curr, node, parse) ==
    IF ~(curr < Len(line)) THEN parse
    ELSE LET child == node \o <<line[curr + 1]>>
             next  == curr + 1
         IN  IF child \notin tree.nodes THEN parse
             ELSE IF child \in tree.sentinel
                  THEN LET subparse == _parse(tree, SubSeq(line, next + 1, Len(line)))
                       IN  _parse_while_overwrite(tree, line, next, child,
                               IF Len(subparse) > 0
                               THEN SubSeq(line, 1, next) \o <<" ">> \o subparse
                               ELSE <<>>)
                  ELSE _parse_while_overwrite(tree, line, next, child, parse)

\* The while loop of Tree._parse, entered with curr, node and parse.
_parse_while(tree, line, curr, node, parse) ==
    IF ~(curr < Len(line)) THEN parse
    ELSE LET child == node \o <<line[curr + 1]>>
             next  == curr + 1
         IN  IF child \notin tree.nodes THEN parse
             ELSE IF child \in tree.sentinel
                  THEN LET subparse == _parse(tree, SubSeq(line, next + 1, Len(line)))
                       IN  _parse_while(tree, line, next, child,
                               IF Len(subparse) > 0
                               THEN SubSeq(line, 1, next) \o <<" ">> \o subparse
                               ELSE parse)
                  ELSE _parse_while(tree, line, next, child, parse)

\* Tree._parse, had it committed to the longest grapheme at the start of the line and
\* given up when the rest cannot be parsed.
_parse_greedy(tree, line) ==
    IF Len(line) = 0 THEN <<"#">>
    ELSE LET found == {k \in 1..Len(line) : SubSeq(line, 1, k) \in tree.sentinel}
         IN  IF found = {} THEN <<>>
             ELSE LET last     == CHOOSE k \in found : \A j \in found : j <= k
                      subparse == _parse(tree, SubSeq(line, last + 1, Len(line)))
                  IN  IF Len(subparse) > 0
                      THEN SubSeq(line, 1, last) \o <<" ">> \o subparse
                      ELSE <<>>

\* Tree._parse
_parse(tree, line) ==
    IF Len(line) = 0 THEN <<"#">> ELSE _parse_while(tree, line, 0, root, <<>>)

\* Tree.parse
Tree_parse(tree, line) ==
    LET parse == _parse(tree, line)
    IN  IF parse # <<>> THEN <<"#", " ">> \o parse ELSE <<>>

\* The while loop of printMultigraphs, entered with curr, last and node (curr and last
\* count from 0, as in the code); its value is last when the loop ends.
RECURSIVE printMultigraphs_while(_, _, _, _, _)
printMultigraphs_while(tree, line, curr, last, node) ==
    IF ~(curr < Len(line)) THEN last
    ELSE LET child == node \o <<line[curr + 1]>>
         IN  IF child \notin tree.nodes THEN last
             ELSE printMultigraphs_while(tree, line, curr + 1,
                      IF child \in tree.sentinel THEN curr ELSE last, child)

RECURSIVE printMultigraphs(_, _, _)
printMultigraphs(tree, line, result) ==
    IF Len(line) = 0 THEN result \o <<"#">>
    ELSE LET last == printMultigraphs_while(tree, line, 0, 0, root) + 1
         IN  printMultigraphs(tree, SubSeq(line, last + 1, Len(line)),
                              result \o SubSeq(line, 1, last) \o <<" ">>)

(***************************************************************************)
(* tokenizer.py: construction.                                             *)
(***************************************************************************)
NULL == <<"N", "U", "L", "L">>

NoError == [type |-> "None", line |-> 0]

\* The empty dict.
EmptyDict == [k \in {} |-> <<>>]

\* The loop over range(0, len(tokens)) of _init_profile, from index i (1-based here).
RECURSIVE set_mappings(_, _, _, _)
set_mappings(st, grapheme, tokens, i) ==
    IF i > Len(tokens) THEN st
    ELSE IF i > Len(st.column_labels)
         THEN [st EXCEPT !.error = [type |-> "IndexError", line |-> st.line_count]]
         ELSE set_mappings(
                  [st EXCEPT !.mappings =
                      (<<grapheme, lower(st.column_labels[i])>> :> strip(tokens[i])) @@ @],
                  grapheme, tokens, i + 1)

\* profile_line, had it counted the line only after skipping comments and blank lines.
profile_line_rowcount(st0, raw) ==
    LET line == strip(raw)
        st   == IF startswith(line, <<"#">>) \/ line = <<>> THEN st0
                ELSE [st0 EXCEPT !.line_count = @ + 1]
    IN  IF startswith(line, <<"#">>) \/ line = <<>> THEN st
        ELSE IF startswith(lower(line), GRAPHEMES)
        THEN LET column_tokens == split_sep(line, "\t")
             IN  [st EXCEPT !.column_labels =
                     @ \o [i \in 1..Len(column_tokens) |-> strip(lower(column_tokens[i]))]]
        ELSE LET tokens   == split_sep(NFD(line), "\t")
                 grapheme == strip(tokens[1])
             IN  IF grapheme \in st.op_graphemes
                 THEN [st EXCEPT !.error = [type |-> "Exception", line |-> st.line_count]]
                 ELSE LET st1 == [st EXCEPT !.op_graphemes = @ \cup {grapheme}]
                      IN  IF Len(tokens) = 1 THEN st1
                          ELSE set_mappings(st1, grapheme, tokens, 1)

\* One pass of the for loop of _init_profile over a line of the file.
profile_line(st0, raw) ==
    LET st   == [st0 EXCEPT !.line_count = @ + 1]
        line == strip(raw)
    IN  IF startswith(line, <<"#">>) \/ line = <<>> THEN st
        ELSE IF startswith(lower(line), GRAPHEMES)
        THEN LET column_tokens == split_sep(line, "\t")
             IN  [st EXCEPT !.column_labels =
                     @ \o [i \in 1..Len(column_tokens) |-> strip(lower(column_tokens[i]))]]
        ELSE LET tokens   == split_sep(NFD(line), "\t")
                 grapheme == strip(tokens[1])
             IN  IF grapheme \in st.op_graphemes
                 THEN [st EXCEPT !.error = [type |-> "Exception", line |-> st.line_count]]
                 ELSE LET st1 == [st EXCEPT !.op_graphemes = @ \cup {grapheme}]
                      IN  IF Len(tokens) = 1 THEN st1
                          ELSE set_mappings(st1, grapheme, tokens, 1)

RECURSIVE _init_profile(_, _)
_init_profile(st, f) ==
    IF f = <<>> \/ st.error # NoError THEN st
    ELSE _init_profile(profile_line(st, Head(f)), Tail(f))

\* rules_line, had it taken a line without a comma as a rule with an empty replacement.
rules_line_lenient(st, raw) ==
    LET line == strip(raw)
    IN  IF startswith(line, <<"#">>) \/ line = <<>> THEN st
        ELSE LET fields == split_sep(NFD(line), ",")
             IN  IF Len(fields) > 2
                 THEN [st EXCEPT !.error = [type |-> "ValueError", line |-> 0]]
                 ELSE [st EXCEPT !.op_rules = Append(@, strip(fields[1])),
                                 !.op_replacements =
                                     Append(@, IF Len(fields) = 2 THEN strip(fields[2]) ELSE <<>>)]

\* One pass of the for loop of _init_rules over a line of the file.
rules_line(st, raw) ==
    LET line == strip(raw)
    IN  IF startswith(line, <<"#">>) \/ line = <<>> THEN st
        ELSE LET fields == split_sep(NFD(line), ",")
             IN  IF Len(fields) # 2
                 THEN [st EXCEPT !.error = [type |-> "ValueError", line |-> 0]]
                 ELSE [st EXCEPT !.op_rules = Append(@, strip(fields[1])),
                                 !.op_replacements = Append(@, strip(fields[2]))]

RECURSIVE rules_loop(_, _)
rules_loop(st, f) ==
    IF f = <<>> \/ st.error # NoError THEN st
    ELSE rules_loop(rules_line(st, Head(f)), Tail(f))

_init_rules(st0, f) ==
    LET st == rules_loop(st0, f)
    IN  IF st.error = NoError /\ Len(st.op_rules) # Len(st.op_replacements)
        THEN [st EXCEPT !.error = [type |-> "ValueError", line |-> 0]]
        ELSE st

\* The attributes of a Tokenizer before __init__ has set any.
NewTokenizer ==
    [orthography_profile       |-> None,
     orthography_profile_rules |-> None,
     tree            |-> EmptyTree,
     column_labels   |-> <<>>,
     mappings        |-> EmptyDict,
     op_graphemes    |-> {},
     op_rules        |-> <<>>,
     op_replacements |-> <<>>,
     line_count      |-> 0,
     error           |-> NoError]

\* Tokenizer.__init__ with the profile file and the rules file found on disk (or not).
Tokenizer(prf, rls) ==
    LET st1 == IF prf.exists
               THEN _init_profile([NewTokenizer EXCEPT !.orthography_profile = "prf",
                                                       !.tree = Tree(prf.lines)], prf.lines)
               ELSE NewTokenizer
    IN  IF st1.error # NoError THEN st1
        ELSE IF rls.exists
             THEN _init_rules([st1 EXCEPT !.orthography_profile_rules = "rules"], rls.lines)
             ELSE st1

(***************************************************************************)
(* tokenizer.py: the methods.  A call returns Ok(value) or raises.         *)
(***************************************************************************)
Ok(v) == [ok |-> TRUE, val |-> v]
Raise(e) == [ok |-> FALSE, val |-> <<e>>]

\* What a Python function returns when it falls off its end.
ReturnsNone == Ok(<<"None">>)

space_after(string) == concat([i \in 1..Len(string) |-> <<string[i], " ">>])

\* Tokenizer.characters
characters(string) ==
    strip(space_after(NFD(replace(string, <<" ">>, <<"#">>))))

\* The matches of the regex \X: a grapheme cluster is a character and the combining
\* marks that follow it; a control character (the tab) takes no marks.
RECURSIVE findall_X(_)
findall_X(string) ==
    IF string = <<>> THEN <<>>
    ELSE LET marks(k) == \A j \in 2..k : ccc(string[j]) > 0
             n == IF Head(string) = "\t" THEN 1
                  ELSE CHOOSE k \in 1..Len(string) :
                           marks(k) /\ (k = Len(string) \/ ~marks(k + 1))
         IN  <<SubSeq(string, 1, n)>> \o findall_X(SubSeq(string, n + 1, Len(string)))

\* Tokenizer.grapheme_clusters
grapheme_clusters(string) ==
    LET graphemes == findall_X(NFD(replace(string, <<" ">>, <<"#">>)))
    IN  strip(concat([i \in 1..Len(graphemes) |-> graphemes[i] \o <<" ">>]))

\* find_missing_characters, had it kept every character that occurs somewhere in a
\* profile grapheme.
find_missing_characters_anywhere(slf, char_tokenized_string) ==
    LET cs == split(char_tokenized_string)
        known == UNION { {g[i] : i \in 1..Len(g)} : g \in slf.op_graphemes }
    IN  join(<<" ">>, [i \in 1..Len(cs) |->
                          IF Len(cs[i]) = 1 /\ cs[i][1] \in known THEN cs[i] ELSE <<"?">>])

\* Tokenizer.find_missing_characters
find_missing_characters(slf, char_tokenized_string) ==
    LET cs == split(char_tokenized_string)
    IN  join(<<" ">>, [i \in 1..Len(cs) |->
                          IF cs[i] \in slf.op_graphemes THEN cs[i] ELSE <<"?">>])

\* The parse that graphemes appends for one word.
word_parse(slf, word) ==
    LET parse == Tree_parse(slf.tree, word)
    IN  IF Len(parse) = 0
        THEN <<" ">> \o find_missing_characters(slf, characters(word))
        ELSE parse

\* graphemes, had it not removed the outer word boundaries.
graphemes_keep_boundaries(slf, string0) ==
    LET string == NFD(string0)
    IN  IF slf.orthography_profile = None THEN grapheme_clusters(string)
        ELSE LET words  == split(string)
                 parses == [i \in 1..Len(words) |-> word_parse(slf, words[i])]
                 result == replace(concat(parses), <<"#", "#">>, <<"#">>)
             IN  strip(result)

\* Tokenizer.graphemes
graphemes(slf, string0) ==
    LET string == NFD(string0)
    IN  IF slf.orthography_profile = None THEN grapheme_clusters(string)
        ELSE LET words  == split(string)
                 parses == [i \in 1..Len(words) |-> word_parse(slf, words[i])]
                 result == replace(concat(parses), <<"#", "#">>, <<"#">>)
             IN  strip(lstrip(rstrip(result, {"#"}), {"#"}))

\* The for loop of Tokenizer.transform over the tokens, with the result so far.
RECURSIVE transform_tokens(_, _, _, _)
transform_tokens(slf, tokens, column, result) ==
    IF tokens = <<>> THEN Ok(strip(join(<<" ">>, result)))
    ELSE LET token == Head(tokens)
         IN  IF token = <<"#">> \/ token = <<"?">>
             THEN transform_tokens(slf, Tail(tokens), column, Append(result, token))
             ELSE IF <<token, column>> \notin DOMAIN slf.mappings
             THEN Raise("KeyError")
             ELSE LET target == slf.mappings[<<token, column>>]
                  IN  transform_tokens(slf, Tail(tokens), column,
                          IF target # NULL THEN Append(result, target) ELSE result)

\* Tokenizer.transform
transform(slf, string, column) ==
    IF slf.orthography_profile = None THEN Raise("Exception")
    ELSE IF column = GRAPHEMES THEN Ok(graphemes(slf, string))
    ELSE IF ~(\E i \in 1..Len(slf.column_labels) : slf.column_labels[i] = column)
    THEN Ok(graphemes(slf, string))
    ELSE transform_tokens(slf, split(graphemes(slf, string)), column, <<>>)

\* re.search and re.sub for a pattern that is a literal, non-empty string and a
\* replacement template without group references.
re_search(rule, string) ==
    \E i \in 1..(Len(string) - Len(rule) + 1) : SubSeq(string, i, i + Len(rule) - 1) = rule

re_sub(rule, replacement, string) == replace(string, rule, replacement)

\* The loop of rules, had each rule been substituted in the input string instead of in
\* the result of the rule before it.
RECURSIVE rules_on_input(_, _, _, _)
rules_on_input(slf, string, result, i) ==
    IF i > Len(slf.op_rules) THEN result
    ELSE rules_on_input(slf, string,
             IF re_search(slf.op_rules[i], result)
             THEN re_sub(slf.op_rules[i], slf.op_replacements[i], string)
             ELSE result,
             i + 1)

rules_from_input(slf, result, i) == rules_on_input(slf, result, result, i)

\* The for loop of Tokenizer.rules from rule i (1-based here).
RECURSIVE rules_from(_, _, _)
rules_from(slf, result, i) ==
    IF i > Len(slf.op_rules) THEN result
    ELSE rules_from(slf,
             IF re_search(slf.op_rules[i], result)
             THEN re_sub(slf.op_rules[i], slf.op_replacements[i], result)
             ELSE result,
             i + 1)

\* Tokenizer.rules
rules(slf, string) ==
    IF slf.orthography_profile_rules = None THEN string
    ELSE NFD(rules_from(slf, NFD(string), 1))

\* rules(...) applied to the outcome of the call that computes its argument.
rules_of(slf, r) == IF r.ok THEN Ok(rules(slf, r.val)) ELSE r

\* tokenize, had it tested for the profile alone first.
tokenize_profile_first(slf, string, column) ==
    LET profile == slf.orthography_profile # None
        rls     == slf.orthography_profile_rules # None
    IN  IF profile THEN transform(slf, string, column)
        ELSE IF ~profile /\ ~rls THEN Ok(grapheme_clusters(string))
        ELSE IF ~profile /\ rls THEN Ok(rules(slf, grapheme_clusters(string)))
        ELSE ReturnsNone

\* Tokenizer.tokenize
tokenize(slf, string, column) ==
    LET profile == slf.orthography_profile # None
        rls     == slf.orthography_profile_rules # None
    IN  IF profile /\ rls THEN rules_of(slf, transform(slf, string, column))
        ELSE IF ~profile /\ ~rls THEN Ok(grapheme_clusters(string))
        ELSE IF profile /\ ~rls THEN transform(slf, string, column)
        ELSE IF ~profile /\ rls THEN Ok(rules(slf, grapheme_clusters(string)))
        ELSE ReturnsNone

(***************************************************************************)
(* The inputs: files on disk and call arguments.                           *)
(***************************************************************************)
MaxTextLen == 3
MaxLines == 4
MaxRuleLines == 3
MaxRules == 2
MaxRuleTextLen == 3

\* All strings over chars of length at most n.
Strings(chars, n) == UNION {[1..k -> chars] : k \in 0..n}

TAB == <<"\t">>
IPA == <<"i", "p", "a">>
Header == <<"G", "r", "a", "p", "h", "e", "m", "e", "s">> \o TAB \o <<"I", "P", "A">>

\* The elements of list at the indices in S, in order.
RECURSIVE Select(_, _)
Select(list, S) ==
    IF list = <<>> THEN <<>>
    ELSE (IF Len(list) \in S THEN Select(SubSeq(list, 1, Len(list) - 1), S) \o <<list[Len(list)]>>
          ELSE Select(SubSeq(list, 1, Len(list) - 1), S))

\* Profiles for the calls: the header and any of these rows.  The row "ab" lists a
\* grapheme and no value; "b" maps to the sentinel NULL.
CallRows ==
    << <<"a">> \o TAB \o <<"1">>,
       <<"b">> \o TAB \o NULL,
       <<"a", "a">> \o TAB \o <<"2">>,
       <<"a", "b">> >>

CallProfiles ==
    {NoFile} \cup {File(<<Header>> \o Select(CallRows, S)) : S \in SUBSET (1..Len(CallRows))}

\* Rules for the calls: none, or a -> b then b -> c.
CallRules == {NoFile, File(<< <<"a", ",", " ", "b">>, <<"b", ",", "c">> >>)}

TextChars == {"a", "b", "x", " "}
Texts == Strings(TextChars, MaxTextLen)
Columns == {GRAPHEMES, IPA, <<"I", "P", "A">>}

NoCall == [op |-> "none", string |-> <<>>, column |-> <<>>, result |-> Ok(<<>>)]

(***************************************************************************)
(* The calls on a constructed Tokenizer.                                   *)
(***************************************************************************)
\* The trie after Tree.parse(line), had _parse read children with setdefault as
\* addMultigraph does: the walk adds a node for every character it reads.
Tree_parse_setdefault(tree, line) ==
    [tree EXCEPT !.nodes = @ \cup {SubSeq(line, 1, k) : k \in 0..Len(line)}]

\* The trie after Tree.parse(line): _parse reads children with dict.get and assigns
\* nothing, so it is the trie it was given.
Tree_parse_tree(tree, line) == tree

\* The object after a method call: graphemes, transform, tokenize and rules assign no
\* attribute of self.
self_after(slf) == slf

Init ==
    /\ profile_file \in CallProfiles
    /\ rules_file \in CallRules
    /\ self = Tokenizer(profile_file, rules_file)
    /\ self.error = NoError
    /\ pc = "ready"
    /\ ret = NoCall

CallGraphemes ==
    /\ pc = "ready"
    /\ \E string \in Texts :
           ret' = [op |-> "graphemes", string |-> string, column |-> <<>>,
                   result |-> Ok(graphemes(self, string))]
    /\ self' = self_after(self)
    /\ pc' = "returned"
    /\ UNCHANGED <<profile_file, rules_file>>

CallTransform ==
    /\ pc = "ready"
    /\ \E string \in Texts, column \in Columns :
           ret' = [op |-> "transform", string |-> string, column |-> column,
                   result |-> transform(self, string, column)]
    /\ self' = self_after(self)
    /\ pc' = "returned"
    /\ UNCHANGED <<profile_file, rules_file>>

CallTokenize ==
    /\ pc = "ready"
    /\ \E string \in Texts, column \in Columns :
           ret' = [op |-> "tokenize", string |-> string, column |-> column,
                   result |-> tokenize(self, string, column)]
    /\ self' = self_after(self)
    /\ pc' = "returned"
    /\ UNCHANGED <<profile_file, rules_file>>

CallRulesOn(strings) ==
    /\ pc = "ready"
    /\ \E string \in strings :
           ret' = [op |-> "rules", string |-> string, column |-> <<>>,
                   result |-> Ok(rules(self, string))]
    /\ self' = self_after(self)
    /\ pc' = "returned"
    /\ UNCHANGED <<profile_file, rules_file>>

CallRulesMethod == CallRulesOn(Texts)

CallTreeParse ==
    /\ pc = "ready"
    /\ self.orthography_profile # None
    /\ \E line \in Texts :
           /\ ret' = [op |-> "parse", string |-> line, column |-> <<>>,
                      result |-> Ok(Tree_parse(self.tree, line))]
           /\ self' = [self EXCEPT !.tree = Tree_parse_tree(self.tree, line)]
    /\ pc' = "returned"
    /\ UNCHANGED <<profile_file, rules_file>>

CallPrintMultigraphs ==
    /\ pc = "ready"
    /\ self.orthography_profile # None
    /\ \E line \in Texts :
           ret' = [op |-> "printMultigraphs", string |-> line, column |-> <<>>,
                   result |-> Ok(printMultigraphs(self.tree, line, <<>>))]
    /\ pc' = "returned"
    /\ UNCHANGED <<profile_file, rules_file, self>>

\* The caller takes the result and is free to make the next call.
Continue ==
    /\ pc = "returned"
    /\ pc' = "ready"
    /\ ret' = NoCall
    /\ UNCHANGED <<profile_file, rules_file, self>>

Next ==
    \/ CallGraphemes \/ CallTransform \/ CallTokenize \/ CallRulesMethod
    \/ CallTreeParse \/ CallPrintMultigraphs \/ Continue

Spec == Init /\ [][Next]_vars

(***************************************************************************)
(* Construction: Tokenizer.__init__ on the files found on disk.            *)
(***************************************************************************)
\* Lines of a profile file: the header, a comment, a blank line, rows for the grapheme
\* a (plain, and padded with another value), for a-acute precomposed and decomposed, and
\* a row with more values than the header declares.
LoadLines ==
    { Header,
      <<"#", "c">>,
      <<>>,
      <<"a">> \o TAB \o <<"1">>,
      <<" ", "a", " ">> \o TAB \o <<"2">>,
      <<"@">> \o TAB \o <<"1">>,
      <<"a", "'">>,
      <<"b">> \o TAB \o <<"1">> \o TAB \o <<"2">> }

LoadProfiles == {File(f) : f \in Strings(LoadLines, MaxLines)}

\* Lines of a rules file: a rule, a pattern without replacement, a line with two commas,
\* a comment.
LoadRuleLines ==
    { <<"a", ",", " ", "b">>, <<"a">>, <<"a", ",", "b", ",", "c">>, <<"#", "c">> }

LoadRules == {File(f) : f \in Strings(LoadRuleLines, MaxRuleLines)}

GoodProfile == File(<<Header, <<"a">> \o TAB \o <<"1">> >>)

InitLoad ==
    /\ \/ profile_file \in LoadProfiles /\ rules_file = NoFile
       \/ profile_file \in {NoFile, GoodProfile} /\ rules_file \in LoadRules
    /\ self = NewTokenizer
    /\ pc = "new"
    /\ ret = NoCall

Construct ==
    /\ pc = "new"
    /\ self' = Tokenizer(profile_file, rules_file)
    /\ pc' = IF self'.error = NoError THEN "ready" ELSE "failed"
    /\ UNCHANGED <<profile_file, rules_file, ret>>

NextLoad == Construct

SpecLoad == InitLoad /\ [][NextLoad]_vars

(***************************************************************************)
(* The rule engine alone, on strings with combining marks.                 *)
(***************************************************************************)
RuleLines ==
    { <<"a", ",", "b">>, <<"b", ",", "c">>, <<"x", ",">>, <<"@", ",", "b">> }

RuleFiles == {File(f) : f \in Strings(RuleLines, MaxRules)}

RuleTexts == Strings({"a", "x", "'", ".", "@"}, MaxRuleTextLen)

InitRules ==
    /\ profile_file = NoFile
    /\ rules_file \in RuleFiles
    /\ self = Tokenizer(profile_file, rules_file)
    /\ self.error = NoError
    /\ pc = "ready"
    /\ ret = NoCall

CallRulesEngine == CallRulesOn(RuleTexts)

NextRules == CallRulesEngine \/ Continue

SpecRules == InitRules /\ [][NextRules]_vars

(***************************************************************************)
(* Properties of graphemes and transform (specification Spec).             *)
(***************************************************************************)
\* The ways to write w as a concatenation of graphemes of G.
RECURSIVE Decomps(_, _)
Decomps(w, G) ==
    IF w = <<>> THEN {<<>>}
    ELSE UNION { {<<g>> \o d : d \in Decomps(SubSeq(w, Len(g) + 1, Len(w)), G)} :
                 g \in {h \in G : h # <<>> /\ startswith(w, h)} }

IsWord(s) == s # <<>> /\ \A i \in 1..Len(s) : s[i] \notin Whitespace

\* The characters that occur in some grapheme of G.
ProfileChars(G) == UNION { {g[i] : i \in 1..Len(g)} : g \in G }

\* A returned call of graphemes on a Tokenizer with a profile.
GraphemesReturned ==
    pc = "returned" /\ ret.op = "graphemes" /\ profile_file.exists

\* graphemes was called on one word that is a concatenation of profile graphemes.
C1_Case ==
    /\ GraphemesReturned
    /\ IsWord(ret.string)
    /\ Decomps(ret.string, self.op_graphemes) # {}

\* C1 (amended): for a word built by concatenating profile graphemes, graphemes(word)
\* is one of the ways to write the word as a concatenation of profile graphemes (so it
\* is g1..gn whenever that is the only way), the graphemes separated by single spaces,
\* and it carries no boundary marker: Tree.parse returns "# " + that + " #" and
\* graphemes removes the outer markers.
C1_Segmentation ==
    C1_Case =>
        LET tokens == split(ret.result.val)
        IN  /\ tokens \in Decomps(ret.string, self.op_graphemes)
            /\ ret.result.val = join(<<" ">>, tokens)
            /\ Tree_parse(self.tree, ret.string) = <<"#", " ">> \o ret.result.val \o <<" ", "#">>

\* C1, witness: a word with a single decomposition, of several graphemes, one of them
\* of two characters, has been segmented.
C1_Witness ==
    /\ C1_Case
    /\ Cardinality(Decomps(ret.string, self.op_graphemes)) = 1
    /\ Len(split(ret.result.val)) = 2
    /\ \E i \in 1..2 : Len(split(ret.result.val)[i]) = 2

\* C1 as stated: graphemes(word) is exactly g1..gn for every way g1..gn of building the
\* word from profile graphemes, with boundary markers at the edges.
C1_Original ==
    C1_Case =>
        \A d \in Decomps(ret.string, self.op_graphemes) :
            ret.result.val = <<"#", " ">> \o join(<<" ">>, d) \o <<" ", "#">>

\* The positions of w whose character occurs in no profile grapheme.
Absent(w, G) == {i \in 1..Len(w) : w[i] \notin ProfileChars(G)}

\* graphemes was called on one word with exactly one character absent from the profile.
C2_Case ==
    /\ GraphemesReturned
    /\ IsWord(ret.string)
    /\ Cardinality(Absent(ret.string, self.op_graphemes)) = 1

\* C2 (amended): a word with exactly one character absent from the profile is tokenized
\* character by character: the output has one token per character, "?" at the absent
\* character's position, and at every other position the character itself if that single
\* character is a profile grapheme and "?" if it is not; multi-character graphemes are
\* not kept.
C2_Fallback ==
    C2_Case =>
        LET w      == ret.string
            tokens == split(ret.result.val)
        IN  /\ Len(tokens) = Len(w)
            /\ ret.result.val = join(<<" ">>, tokens)
            /\ \A i \in 1..Len(w) :
                   tokens[i] = IF i \in Absent(w, self.op_graphemes) THEN <<"?">>
                               ELSE IF <<w[i]>> \in self.op_graphemes THEN <<w[i]>>
                               ELSE <<"?">>

\* C2, witness: the word holds a two-character grapheme next to the absent character,
\* and its characters came out as "?".
C2_Witness ==
    /\ C2_Case
    /\ ret.string = <<"a", "a", "x">>
    /\ self.op_graphemes = {<<"a", "a">>}
    /\ ret.result.val = <<"?", " ", "?", " ", "?">>

\* C2 as stated: "?" at exactly the absent character's position and nowhere else, the
\* rest segmented as it is without the absent character.
C2_Original ==
    C2_Case =>
        LET w      == ret.string
            p      == CHOOSE i \in Absent(w, self.op_graphemes) : TRUE
            tokens == split(ret.result.val)
        IN  /\ tokens = split(graphemes(self, SubSeq(w, 1, p - 1))) \o << <<"?">> >>
                            \o split(graphemes(self, SubSeq(w, p + 1, Len(w))))
            /\ Cardinality({i \in 1..Len(tokens) : tokens[i] = <<"?">>}) = 1

\* The tokens of the words, a "#" token between consecutive words.
RECURSIVE BoundaryJoined(_)
BoundaryJoined(wordTokens) ==
    IF wordTokens = <<>> THEN <<>>
    ELSE IF Len(wordTokens) = 1 THEN wordTokens[1]
    ELSE wordTokens[1] \o << <<"#">> >> \o BoundaryJoined(Tail(wordTokens))

\* C3: for a text of two or more words, the output of graphemes has a standalone "#"
\* token between the tokens of consecutive words, whether a word parsed or fell back to
\* its characters.
C3_BoundaryBetweenWords ==
    (GraphemesReturned /\ Len(split(ret.string)) >= 2) =>
        LET words == split(ret.string)
        IN  split(ret.result.val)
                = BoundaryJoined([i \in 1..Len(words) |-> split(graphemes(self, words[i]))])

\* Every row of the profile has a value for every declared column.
CompleteRows ==
    \A g \in self.op_graphemes : \A i \in 1..Len(self.column_labels) :
        <<g, self.column_labels[i]>> \in DOMAIN self.mappings

Declared(column) == \E i \in 1..Len(self.column_labels) : self.column_labels[i] = column

\* A returned call of transform with a declared column, on a complete profile.
TransformReturned ==
    /\ pc = "returned" /\ ret.op = "transform" /\ profile_file.exists
    /\ CompleteRows
    /\ Declared(ret.column)

\* C4: on a profile whose rows are complete, transform(text, column) with a declared
\* column returns a string and never raises.
C4_TransformNeverRaises == TransformReturned => ret.result.ok

\* The values of the grapheme tokens in the column, "#" and "?" kept, NULL dropped.
RECURSIVE Remapped(_, _)
Remapped(tokens, column) ==
    IF tokens = <<>> THEN <<>>
    ELSE LET t == Head(tokens)
             v == IF t \in {<<"#">>, <<"?">>} THEN << t >>
                  ELSE IF <<t, column>> \notin DOMAIN self.mappings THEN << <<"!">> >>
                  ELSE IF self.mappings[<<t, column>>] = NULL THEN <<>>
                  ELSE << self.mappings[<<t, column>>] >>
         IN  v \o Remapped(Tail(tokens), column)

\* C6: for a declared column other than the grapheme column, transform gives one token
\* per token of graphemes(text), in order: "#" and "?" unchanged, a grapheme replaced by
\* its value in the column, a token whose value is NULL left out.
C6_TransformTokens ==
    (TransformReturned /\ ret.column # GRAPHEMES) =>
        /\ ret.result.ok
        /\ split(ret.result.val) = Remapped(split(graphemes(self, ret.string)), ret.column)

(***************************************************************************)
(* Properties of construction (specification SpecLoad).                    *)
(***************************************************************************)
Skipped(line) == strip(line) = <<>> \/ Head(strip(line)) = "#"
IsHeader(line) == ~Skipped(line) /\ startswith(lower(strip(line)), GRAPHEMES)
IsRow(line) == ~Skipped(line) /\ ~IsHeader(line)

\* The fields of a line, and the grapheme of a row: its first field, in NFD, trimmed.
Fields(line) == split_sep(NFD(strip(line)), "\t")
RowGrapheme(line) == strip(Fields(line)[1])

\* The line numbers (from 1) of the rows whose grapheme an earlier row has.
DuplicateLines(f) ==
    {j \in 1..Len(f) : /\ IsRow(f[j])
                       /\ \E i \in 1..(j - 1) : IsRow(f[i]) /\ RowGrapheme(f[i]) = RowGrapheme(f[j])}

Min(S) == CHOOSE n \in S : \A m \in S : n <= m

\* The file has the format of a profile: its first line that is no comment and not blank
\* is the header, and no row has more fields than the header.
InFormat(f) ==
    /\ \E h \in 1..Len(f) :
           /\ IsHeader(f[h])
           /\ \A i \in 1..(h - 1) : Skipped(f[i])
           /\ \A j \in 1..Len(f) : IsRow(f[j]) => Len(Fields(f[j])) <= Len(Fields(f[h]))

\* __init__ has run on a profile file in which two rows have the same grapheme.
C5_Case ==
    /\ pc # "new"
    /\ profile_file.exists
    /\ DuplicateLines(profile_file.lines) # {}

RuleLinesOf(f) == {i \in 1..Len(f) : ~Skipped(f[i])}
Commas(line) == Cardinality({k \in 1..Len(line) : line[k] = ","})
WithReplacement(f) == {i \in RuleLinesOf(f) : Commas(f[i]) = 1}

\* __init__ has run on a rules file (and on no profile, or on one that loads).
C8_Case ==
    /\ pc # "new"
    /\ rules_file.exists

\* C8: loading rules in which the number of patterns differs from the number of usable
\* replacements aborts construction, and after a successful load the lists of patterns
\* and of replacements have the same length.
C8_RuleCounts ==
    C8_Case =>
        LET f == rules_file.lines
        IN  /\ Cardinality(RuleLinesOf(f)) # Cardinality(WithReplacement(f)) =>
                   pc = "failed" /\ self.error.type = "ValueError"
            /\ pc = "ready" =>
                   /\ Len(self.op_rules) = Len(self.op_replacements)
                   /\ Len(self.op_rules) = Cardinality(RuleLinesOf(f))

\* C8, witness: three pattern lines, two of them with a replacement, and construction
\* failed.
C8_Witness ==
    /\ C8_Case
    /\ Cardinality(RuleLinesOf(rules_file.lines)) = 3
    /\ Cardinality(WithReplacement(rules_file.lines)) = 2
    /\ pc = "failed"

(***************************************************************************)
(* Properties of the rule engine (specification SpecRules).                *)
(***************************************************************************)
\* Rule i of the file: the pattern and the replacement of its i-th line.
RulePattern(line) == strip(split_sep(NFD(strip(line)), ",")[1])
RuleReplacement(line) == strip(split_sep(NFD(strip(line)), ",")[2])

\* The result of rules 1..n of file f applied in order to s, each to the result of the
\* one before.
RECURSIVE Fold(_, _, _)
Fold(f, s, n) ==
    IF n = 0 THEN s
    ELSE replace(Fold(f, s, n - 1), RulePattern(f[n]), RuleReplacement(f[n]))

\* A returned call of rules on a Tokenizer with rules.
C7_Case == pc = "returned" /\ ret.op = "rules" /\ rules_file.exists

\* C7 (amended): rules(s) is the NFD form of the left fold of the rules in file order
\* over the NFD form of s, each rule replacing all matches of its pattern in the result
\* of the rule before it; the rules a -> b, b -> c give "c" for "a".
C7_RulesFold ==
    C7_Case =>
        LET f == rules_file.lines
        IN  /\ ret.result.val = NFD(Fold(f, NFD(ret.string), Len(f)))
            /\ (f = << <<"a", ",", "b">>, <<"b", ",", "c">> >> /\ ret.string = <<"a">>) =>
                   ret.result.val = <<"c">>

\* C7, witness: the rules a -> b, b -> c have been applied to "a", and gave "c".
C7_Witness ==
    /\ C7_Case
    /\ rules_file.lines = << <<"a", ",", "b">>, <<"b", ",", "c">> >>
    /\ ret.string = <<"a">>
    /\ ret.result.val = <<"c">>

\* C7 as stated: rules(s) equals the left fold of the rules over the NFD form of s.
C7_Original ==
    C7_Case =>
        ret.result.val = Fold(rules_file.lines, NFD(ret.string), Len(rules_file.lines))

(***************************************************************************)
(* Properties of tokenize and of the calls as a whole (specification Spec). *)
(***************************************************************************)
\* A returned call of tokenize.
C9_Case == pc = "returned" /\ ret.op = "tokenize"

\* C9: tokenize takes exactly one of four branches: with profile and rules it returns
\* rules(transform(text, column)), with neither grapheme_clusters(text), with a profile
\* only transform(text, column), with rules only rules(grapheme_clusters(text)); it
\* never falls through without a result.
C9_Dispatch ==
    C9_Case =>
        LET string == ret.string
            column == ret.column
        IN  /\ ret.result # ReturnsNone
            /\ (profile_file.exists /\ rules_file.exists) =>
                   ret.result = rules_of(self, transform(self, string, column))
            /\ (~profile_file.exists /\ ~rules_file.exists) =>
                   ret.result = Ok(grapheme_clusters(string))
            /\ (profile_file.exists /\ ~rules_file.exists) =>
                   ret.result = transform(self, string, column)
            /\ (~profile_file.exists /\ rules_file.exists) =>
                   ret.result = Ok(rules(self, grapheme_clusters(string)))

\* C9, witness: with a profile and rules, tokenize returned the rules' rewriting of the
\* segmentation, which differs from the segmentation.
C9_Witness ==
    /\ C9_Case
    /\ profile_file.exists /\ rules_file.exists
    /\ ret.string = <<"a", " ", "b">>
    /\ transform(self, ret.string, ret.column) = Ok(<<"a", " ", "#", " ", "b">>)
    /\ ret.result = Ok(<<"c", " ", "#", " ", "c">>)

\* What a call returns on the Tokenizer slf.
ResultOf(slf, call) ==
    CASE call.op = "graphemes" -> Ok(graphemes(slf, call.string))
      [] call.op = "transform" -> transform(slf, call.string, call.column)
      [] call.op = "tokenize"  -> tokenize(slf, call.string, call.column)
      [] call.op = "rules"     -> Ok(rules(slf, call.string))
      [] call.op = "parse"     -> Ok(Tree_parse(slf.tree, call.string))
      [] OTHER                 -> call.result

\* C10: after construction, no call of graphemes, transform, tokenize, rules or
\* Tree.parse changes the trie, the grapheme set, the column labels, the mappings or the
\* rule lists, and a call returns what it returns on the Tokenizer as constructed.
C10_CallsLeaveTokenizer ==
    [][ /\ self' = self
        /\ ret'.result = ResultOf(Tokenizer(profile_file, rules_file), ret') ]_vars

\* C10, witness: a word that does not parse, with an unknown column, has been
\* transformed, and the Tokenizer is as it was constructed.
C10_Witness ==
    /\ pc = "returned" /\ ret.op = "transform"
    /\ profile_file.exists
    /\ ret.string = <<"x", "a">>
    /\ ret.column = <<"I", "P", "A">>
    /\ self = Tokenizer(profile_file, rules_file)

(***************************************************************************)
(* Properties of the trie parser (specification Spec).                     *)
(***************************************************************************)
\* The graphemes of the trie: the paths to its terminal nodes, the root apart.
TrieGraphemes == self.tree.sentinel \ {root}

Suffix(w, k) == SubSeq(w, k + 1, Len(w))

\* The lengths of the prefixes of w that are graphemes, and of those among them whose
\* remaining suffix can be written as a concatenation of graphemes.
GraphemePrefixes(w, G) == {k \in 1..Len(w) : SubSeq(w, 1, k) \in G}
ParsablePrefixes(w, G) == {k \in GraphemePrefixes(w, G) : Decomps(Suffix(w, k), G) # {}}

Max(S) == CHOOSE n \in S : \A m \in S : m <= n

\* The segmentation that takes, at every step, the longest grapheme prefix whose
\* remainder can be parsed.
RECURSIVE LongestParsable(_, _)
LongestParsable(w, G) ==
    IF w = <<>> \/ ParsablePrefixes(w, G) = {} THEN <<>>
    ELSE LET k == Max(ParsablePrefixes(w, G))
         IN  <<SubSeq(w, 1, k)>> \o LongestParsable(Suffix(w, k), G)

\* Somewhere along that segmentation a longer grapheme prefix exists whose remainder
\* cannot be parsed.
RECURSIVE DeadEnd(_, _)
DeadEnd(w, G) ==
    /\ w # <<>>
    /\ ParsablePrefixes(w, G) # {}
    /\ \/ Max(GraphemePrefixes(w, G)) > Max(ParsablePrefixes(w, G))
       \/ DeadEnd(Suffix(w, Max(ParsablePrefixes(w, G))), G)

\* The result of Tree.parse, had it been that of the greedy longest match.
GreedyParse(line) == <<"#", " ">> \o printMultigraphs(self.tree, line, <<>>)

\* Tree.parse has returned for a non-empty word.
C11_Case ==
    /\ pc = "returned" /\ ret.op = "parse"
    /\ ret.string # <<>>

\* The first grapheme of a returned segmentation is the longest grapheme prefix whose
\* remainder can be parsed, and so on for the remainder.
C11_LongestFirst ==
    Decomps(ret.string, TrieGraphemes) # {} =>
        split(ret.result.val)
            = << <<"#">> >> \o LongestParsable(ret.string, TrieGraphemes) \o << <<"#">> >>

\* C11 (amended): the first grapheme of the segmentation Tree._parse returns is the
\* longest prefix of the word that is a profile grapheme and whose remaining suffix can
\* be fully parsed, and so on for the suffix.  For a word that can be fully parsed the
\* result differs from the greedy longest match (printMultigraphs) exactly when a
\* longer grapheme prefix with an unparsable remainder was passed over; for a word that
\* cannot be fully parsed _parse returns the empty string, and printMultigraphs still
\* returns a segmentation.
C11_LongestParsablePrefix ==
    C11_Case =>
        /\ C11_LongestFirst
        /\ Decomps(ret.string, TrieGraphemes) # {} =>
               ((ret.result.val # GreedyParse(ret.string)) <=> DeadEnd(ret.string, TrieGraphemes))
        /\ Decomps(ret.string, TrieGraphemes) = {} =>
               (ret.result.val = <<>> /\ GreedyParse(ret.string) # <<>>)

\* C11, witness: the longest grapheme prefix "aa" of "aab" leaves "b", which cannot be
\* parsed; the parse took "a" and "ab", and the greedy match is another.
C11_Witness ==
    /\ C11_Case
    /\ ret.string = <<"a", "a", "b">>
    /\ TrieGraphemes = {<<"a">>, <<"a", "a">>, <<"a", "b">>}
    /\ ret.result.val = <<"#", " ", "a", " ", "a", "b", " ", "#">>
    /\ GreedyParse(ret.string) = <<"#", " ", "a", "a", " ", "b", " ", "#">>

\* C11 as stated: for every non-empty word, the segmentation takes the longest grapheme
\* prefix whose remainder can be parsed, and the result differs from the greedy longest
\* match exactly on the words where a longer prefix with an unparsable remainder was
\* passed over.
C11_Original ==
    C11_Case =>
        /\ C11_LongestFirst
        /\ (ret.result.val # GreedyParse(ret.string)) <=> DeadEnd(ret.string, TrieGraphemes)

(***************************************************************************)
(* The mapping table after a load (specification SpecLoad).                *)
(***************************************************************************)
\* The constructor has returned a Tokenizer built from a profile file.
ProfileLoaded ==
    /\ pc = "ready"
    /\ profile_file.exists

\* The declared column labels other than the grapheme column.
ValueColumns == {self.column_labels[i] : i \in 2..Len(self.column_labels)}

\* C12: after every successful profile load the mapping table has an entry for every
\* grapheme of the profile and every declared column other than the grapheme column,
\* also for the rows that list only a grapheme or fewer values than the header declares.
C12_MappingsComplete ==
    ProfileLoaded =>
        \A g \in self.op_graphemes : \A c \in ValueColumns :
            <<g, c>> \in DOMAIN self.mappings

(***************************************************************************)
(* Tree.parse and the segmentations of a word (specification Spec).        *)
(***************************************************************************)
\* Tree.parse has returned.
C13_Case == pc = "returned" /\ ret.op = "parse"

\* The tokens of a returned parse between its two boundary markers.
Between(tokens) == SubSeq(tokens, 2, Len(tokens) - 1)

\* C13: Tree.parse(word) is non-empty exactly when the word can be written as a
\* concatenation of graphemes of the trie; a non-empty result is "#", then graphemes
\* of the trie whose concatenation is the word, then "#", separated by single spaces.
C13_ParseIffSegmentable ==
    C13_Case =>
        LET tokens == split(ret.result.val)
        IN  /\ (ret.result.val # <<>>) <=> (Decomps(ret.string, TrieGraphemes) # {})
            /\ ret.result.val # <<>> =>
                   /\ Len(tokens) >= 2
                   /\ tokens[1] = <<"#">>
                   /\ tokens[Len(tokens)] = <<"#">>
                   /\ Between(tokens) \in Decomps(ret.string, TrieGraphemes)
                   /\ ret.result.val = join(<<" ">>, tokens)

\* C13, witness: a word with exactly one segmentation, which the longest match at its
\* start misses, has been parsed.
C13_Witness ==
    /\ C13_Case
    /\ Cardinality(Decomps(ret.string, TrieGraphemes)) = 1
    /\ DeadEnd(ret.string, TrieGraphemes)
    /\ Len(ret.string) = MaxTextLen
    /\ ret.result.val # <<>>

====
